---- MODULE Spec2Model ----
(***************************************************************************)
(* A model of the validation and coordinate-transform engine of            *)
(* ome-ngff-rs (module v0_4).                                              *)
(*                                                                         *)
(* Conventions                                                             *)
(*   Option<T>    None is <<>>, Some(x) is <<x>>.                          *)
(*   Result<T,E>  [tag |-> "Ok", val |-> v], [tag |-> "Err", err |-> e];   *)
(*                a call that unwinds (unimplemented!(), index out of      *)
(*                bounds) yields [tag |-> "Panic"] and ends the program.   *)
(*   f64          a coordinate is the exact rational <<n, d>>, d > 0, in   *)
(*                lowest terms.  The inputs are small integers, so every   *)
(*                sum, difference and product below is exact in f64 too.   *)
(*   &mut [f64]   an operation on the buffer is an operator that returns   *)
(*                [res |-> its Result, coord |-> the buffer afterwards].   *)
(***************************************************************************)
EXTENDS Integers, Sequences, FiniteSets, TLC

VARIABLES
    cs,      \* a transform list: &[CoordinateTransformation]
    ms,      \* a Multiscale: axes, datasets, coordinate_transformations
    meta,    \* the other entries of an NgffMetadata: image_label, plate, well
    coord,   \* the coordinate buffer: &mut [f64]
    calls    \* the calls made so far, each with its receiver/arguments,
             \* the buffer before it (pre) and its result (res)

vars == <<cs, ms, meta, coord, calls>>

-----------------------------------------------------------------------------
(* Bounds *)

MaxCalls == 2      \* calls per run
MaxLen == 2        \* elements of a transform list given to transform()
MaxCoordLen == 2   \* length of a coordinate buffer / inline vector
MaxDim == 3        \* largest dimensionality handed to the reconciler
MaxAxes == 6       \* axes in a list given to InvalidAxes::validate
MaxCsLen == 3      \* elements of a transform list given to validate()
MaxLevels == 1     \* datasets of a Multiscale whose levels are transformed
MaxMsDim == 3      \* most axes / longest inline vector of a validated Multiscale
MaxDatasets == 2   \* datasets of a validated Multiscale
MaxRows == 2       \* rows of a Plate
MaxColumns == 3    \* columns of a Plate
MaxAcquisitions == 2  \* acquisitions of a Plate
MaxWells == 2      \* wells of a Plate
MaxImages == 2     \* fields of view of a Well
MaxLabel == 2      \* largest label value of an ImageLabel
MaxEntries == 2    \* entries of colors and of properties of an ImageLabel
MaxScanAxes == 4   \* axes in a list validated next to the other documents

\* lib.rs: const MAX_DIMS
MAX_DIMS == 5

-----------------------------------------------------------------------------
(* Option and Result *)

None == <<>>

Some(x) == <<x>>

Ok(v) == [tag |-> "Ok", val |-> v]

Err(e) == [tag |-> "Err", err |-> e]

Panic == [tag |-> "Panic"]

Unit == <<>>

IsOk(r) == r.tag = "Ok"

IsErr(r) == r.tag = "Err"

IsPanic(r) == r.tag = "Panic"

-----------------------------------------------------------------------------
(* f64 arithmetic on exact rationals *)

Abs(n) == IF n < 0 THEN -n ELSE n

RECURSIVE GCD(_, _)
GCD(a, b) == IF b = 0 THEN a ELSE GCD(b, a % b)

Norm(n, d) ==
    LET s == IF d < 0 THEN -1 ELSE 1
        g == GCD(Abs(n), Abs(d))
    IN  <<(s * n) \div g, (s * d) \div g>>

F(n) == <<n, 1>>

FAdd(c, t) == Norm(c[1] * t[2] + t[1] * c[2], c[2] * t[2])

FSub(c, t) == Norm(c[1] * t[2] - t[1] * c[2], c[2] * t[2])

FMul(c, t) == Norm(c[1] * t[1], c[2] * t[2])

\* t is never zero: the inputs hold no zero scale factor
FDiv(c, t) == Norm(c[1] * t[2], c[2] * t[1])

Min(a, b) == IF a < b THEN a ELSE b

\* coord.iter_mut().zip(v.iter()): the common prefix is updated
ZipAdd(coord_, v) ==
    [i \in 1..Len(coord_) |->
        IF i <= Min(Len(coord_), Len(v)) THEN FAdd(coord_[i], v[i]) ELSE coord_[i]]

ZipSub(coord_, v) ==
    [i \in 1..Len(coord_) |->
        IF i <= Min(Len(coord_), Len(v)) THEN FSub(coord_[i], v[i]) ELSE coord_[i]]

ZipMul(coord_, v) ==
    [i \in 1..Len(coord_) |->
        IF i <= Min(Len(coord_), Len(v)) THEN FMul(coord_[i], v[i]) ELSE coord_[i]]

ZipDiv(coord_, v) ==
    [i \in 1..Len(coord_) |->
        IF i <= Min(Len(coord_), Len(v)) THEN FDiv(coord_[i], v[i]) ELSE coord_[i]]

-----------------------------------------------------------------------------
(* util.rs: the dimensionality reconciler *)

InconsistentDimensionality(d1, d2) ==
    [kind |-> "InconsistentDimensionality", dims |-> <<d1, d2>>]

\* the comparison left out
check_dims_NoCompare(dim1, dim2) == Ok(dim1)

check_dims(dim1, dim2) ==
    IF dim1 = dim2 THEN Ok(dim1) ELSE Err(InconsistentDimensionality(dim1, dim2))

\* Result::map(Some)
MapSome(r) == IF IsOk(r) THEN Ok(Some(r.val)) ELSE r

\* an absent first count swallows the second
check_dim_opts_DropsOther(dim1, dim2) ==
    IF dim1 = None THEN Ok(None)
    ELSE IF dim2 = None THEN Ok(dim1)
    ELSE MapSome(check_dims(dim1[1], dim2[1]))

check_dim_opts(dim1, dim2) ==
    IF dim1 = None THEN Ok(dim2)
    ELSE IF dim2 = None THEN Ok(dim1)
    ELSE MapSome(check_dims(dim1[1], dim2[1]))

\* self and other are given by their maybe_ndim()
union_ndim(self_ndim, other_ndim) ==
    IF self_ndim = None THEN Ok(other_ndim)
    ELSE IF other_ndim = None THEN Ok(Some(self_ndim[1]))
    ELSE MapSome(check_dims(self_ndim[1], other_ndim[1]))

-----------------------------------------------------------------------------
(* coordinate_transformations.rs: the transform values *)

Identity == [type |-> "identity"]

TranslationPath == [type |-> "translation", path |-> "p"]

Translation(v) == [type |-> "translation", translation |-> v]

ScalePath == [type |-> "scale", path |-> "p"]

Scale(v) == [type |-> "scale", scale |-> v]

IsPath(c) == "path" \in DOMAIN c

IsTranslation(c) == c.type = "translation"

IsScale(c) == c.type = "scale"

IsInline(c) == c.type # "identity" /\ ~IsPath(c)

InlineVec(c) == IF IsTranslation(c) THEN c.translation ELSE c.scale

TranslationOrPath_maybe_ndim(t) ==
    IF IsPath(t) THEN None ELSE Some(Len(t.translation))

ScaleOrPath_maybe_ndim(t) ==
    IF IsPath(t) THEN None ELSE Some(Len(t.scale))

maybe_ndim(c) ==
    IF IsTranslation(c) THEN TranslationOrPath_maybe_ndim(c)
    ELSE IF IsScale(c) THEN ScaleOrPath_maybe_ndim(c)
    ELSE None

\* The ? operator: an Err of the check is returned at once, with the buffer
\* as it is; otherwise the body runs.
TranslationOrPath_transform(t, coord_) ==
    LET chk == check_dim_opts(TranslationOrPath_maybe_ndim(t), Some(Len(coord_)))
    IN  IF IsErr(chk) THEN [res |-> chk, coord |-> coord_]
        ELSE IF IsPath(t) THEN [res |-> Panic, coord |-> coord_]
        ELSE [res |-> Ok(Unit), coord |-> ZipAdd(coord_, t.translation)]

TranslationOrPath_rev_transform(t, coord_) ==
    LET chk == check_dim_opts(TranslationOrPath_maybe_ndim(t), Some(Len(coord_)))
    IN  IF IsErr(chk) THEN [res |-> chk, coord |-> coord_]
        ELSE IF IsPath(t) THEN [res |-> Panic, coord |-> coord_]
        ELSE [res |-> Ok(Unit), coord |-> ZipSub(coord_, t.translation)]

ScaleOrPath_transform(t, coord_) ==
    LET chk == check_dim_opts(ScaleOrPath_maybe_ndim(t), Some(Len(coord_)))
    IN  IF IsErr(chk) THEN [res |-> chk, coord |-> coord_]
        ELSE IF IsPath(t) THEN [res |-> Panic, coord |-> coord_]
        ELSE [res |-> Ok(Unit), coord |-> ZipMul(coord_, t.scale)]

ScaleOrPath_rev_transform(t, coord_) ==
    LET chk == check_dim_opts(ScaleOrPath_maybe_ndim(t), Some(Len(coord_)))
    IN  IF IsErr(chk) THEN [res |-> chk, coord |-> coord_]
        ELSE IF IsPath(t) THEN [res |-> Panic, coord |-> coord_]
        ELSE [res |-> Ok(Unit), coord |-> ZipDiv(coord_, t.scale)]

CoordinateTransformation_transform(c, coord_) ==
    IF IsTranslation(c) THEN TranslationOrPath_transform(c, coord_)
    ELSE IF IsScale(c) THEN ScaleOrPath_transform(c, coord_)
    ELSE [res |-> Ok(Unit), coord |-> coord_]

CoordinateTransformation_rev_transform(c, coord_) ==
    IF IsTranslation(c) THEN TranslationOrPath_rev_transform(c, coord_)
    ELSE IF IsScale(c) THEN ScaleOrPath_rev_transform(c, coord_)
    ELSE [res |-> Ok(Unit), coord |-> coord_]

\* self.iter().try_for_each(|t| t.transform(coord)), from element i on:
\* stops at the first element that does not return Ok
RECURSIVE TryForEachTransform(_, _, _)
TryForEachTransform(list, i, coord_) ==
    IF i > Len(list) THEN [res |-> Ok(Unit), coord |-> coord_]
    ELSE LET r == CoordinateTransformation_transform(list[i], coord_)
         IN  IF IsOk(r.res) THEN TryForEachTransform(list, i + 1, r.coord) ELSE r

\* self.iter().rev().try_for_each(|t| t.transform(coord)), from element i
\* down: the closure calls transform, as the source does
RECURSIVE TryForEachRev(_, _, _)
TryForEachRev(list, i, coord_) ==
    IF i < 1 THEN [res |-> Ok(Unit), coord |-> coord_]
    ELSE LET r == CoordinateTransformation_transform(list[i], coord_)
         IN  IF IsOk(r.res) THEN TryForEachRev(list, i - 1, r.coord) ELSE r

Slice_transform(list, coord_) == TryForEachTransform(list, 1, coord_)

Slice_rev_transform(list, coord_) == TryForEachRev(list, Len(list), coord_)

-----------------------------------------------------------------------------
(* multiscale.rs: apply and invert for a pyramid level, (&Multiscale, usize) *)

MultiscaleDataset(path, list) == [path |-> path, coordinate_transformations |-> list]

\* self.0.datasets[self.1] panics when the level is out of range; level
\* counts from 0
Level_transform(m, level, coord_) ==
    IF level >= Len(m.datasets) THEN [res |-> Panic, coord |-> coord_]
    ELSE LET ds == m.datasets[level + 1]
             r1 == Slice_transform(ds.coordinate_transformations, coord_)
         IN  IF ~IsOk(r1.res) THEN r1
             ELSE IF m.coordinate_transformations # None
                 THEN Slice_transform(m.coordinate_transformations[1], r1.coord)
                 ELSE [res |-> Ok(Unit), coord |-> r1.coord]

\* the group-wide list is inverted before the level is looked up
Level_rev_transform(m, level, coord_) ==
    LET r1 == IF m.coordinate_transformations # None
                THEN Slice_rev_transform(m.coordinate_transformations[1], coord_)
                ELSE [res |-> Ok(Unit), coord |-> coord_]
    IN  IF ~IsOk(r1.res) THEN r1
        ELSE IF level >= Len(m.datasets) THEN [res |-> Panic, coord |-> r1.coord]
        ELSE Slice_rev_transform(m.datasets[level + 1].coordinate_transformations,
                                 r1.coord)

-----------------------------------------------------------------------------
(* coordinate_transformations.rs: InvalidCoordinateTransforms::validate *)

MissingScale == [kind |-> "MissingScale"]

InvalidCoordinateTransforms_Order == [kind |-> "Order"]

Unsupported(msg) == [kind |-> "Unsupported", msg |-> msg]

InvalidCoordinateTransforms_Count(msg) == [kind |-> "Count", msg |-> msg]

\* #[from] InconsistentDimensionality
Dimensions(e) == [kind |-> "Dimensions", inner |-> e]

\* the reconciled count is dropped instead of threaded through the list
validate_elem_NoThread(c, ndim, has_scale, has_transl) ==
    LET chk == check_dim_opts(ndim, maybe_ndim(c))
    IN  IF IsErr(chk) THEN Err(Dimensions(chk.err))
        ELSE IF c.type = "identity" THEN Err(Unsupported("identity"))
        ELSE IF IsTranslation(c) THEN
            IF ~has_scale THEN Err(InvalidCoordinateTransforms_Order)
            ELSE IF has_transl
                THEN Err(InvalidCoordinateTransforms_Count("Multiple translations found"))
                ELSE Ok([ndim |-> ndim, has_scale |-> has_scale, has_transl |-> TRUE])
        ELSE
            IF has_scale
                THEN Err(InvalidCoordinateTransforms_Count("Multiple scales found"))
                ELSE Ok([ndim |-> ndim, has_scale |-> TRUE, has_transl |-> has_transl])

\* the second Scale is let through
validate_elem_NoScaleCount(c, ndim, has_scale, has_transl) ==
    LET chk == check_dim_opts(ndim, maybe_ndim(c))
    IN  IF IsErr(chk) THEN Err(Dimensions(chk.err))
        ELSE IF c.type = "identity" THEN Err(Unsupported("identity"))
        ELSE IF IsTranslation(c) THEN
            IF ~has_scale THEN Err(InvalidCoordinateTransforms_Order)
            ELSE IF has_transl
                THEN Err(InvalidCoordinateTransforms_Count("Multiple translations found"))
                ELSE Ok([ndim |-> chk.val, has_scale |-> has_scale, has_transl |-> TRUE])
        ELSE Ok([ndim |-> chk.val, has_scale |-> TRUE, has_transl |-> has_transl])

\* a Translation is accepted although no Scale came before it
validate_elem_NoOrder(c, ndim, has_scale, has_transl) ==
    LET chk == check_dim_opts(ndim, maybe_ndim(c))
    IN  IF IsErr(chk) THEN Err(Dimensions(chk.err))
        ELSE IF c.type = "identity" THEN Err(Unsupported("identity"))
        ELSE IF IsTranslation(c) THEN
            IF has_transl
                THEN Err(InvalidCoordinateTransforms_Count("Multiple translations found"))
                ELSE Ok([ndim |-> chk.val, has_scale |-> has_scale, has_transl |-> TRUE])
        ELSE
            IF has_scale
                THEN Err(InvalidCoordinateTransforms_Count("Multiple scales found"))
                ELSE Ok([ndim |-> chk.val, has_scale |-> TRUE, has_transl |-> has_transl])

\* the body of the loop over cs: Err(e) is the early return, Ok(st) the
\* locals ndim, has_scale, has_transl after the element
validate_elem(c, ndim, has_scale, has_transl) ==
    LET chk == check_dim_opts(ndim, maybe_ndim(c))
    IN  IF IsErr(chk) THEN Err(Dimensions(chk.err))
        ELSE IF c.type = "identity" THEN Err(Unsupported("identity"))
        ELSE IF IsTranslation(c) THEN
            IF ~has_scale THEN Err(InvalidCoordinateTransforms_Order)
            ELSE IF has_transl
                THEN Err(InvalidCoordinateTransforms_Count("Multiple translations found"))
                ELSE Ok([ndim |-> chk.val, has_scale |-> has_scale, has_transl |-> TRUE])
        ELSE
            IF has_scale
                THEN Err(InvalidCoordinateTransforms_Count("Multiple scales found"))
                ELSE Ok([ndim |-> chk.val, has_scale |-> TRUE, has_transl |-> has_transl])

RECURSIVE validate_loop(_, _, _, _, _)
validate_loop(list, i, ndim, has_scale, has_transl) ==
    IF i > Len(list) THEN Ok(ndim)
    ELSE LET r == validate_elem(list[i], ndim, has_scale, has_transl)
         IN  IF IsErr(r) THEN r
             ELSE validate_loop(list, i + 1, r.val.ndim, r.val.has_scale, r.val.has_transl)

\* an empty list is accepted although a Scale is mandatory
InvalidCoordinateTransforms_validate_NoMissingScale(list, require_scale, ndim) ==
    validate_loop(list, 1, ndim, FALSE, FALSE)

InvalidCoordinateTransforms_validate(list, require_scale, ndim) ==
    IF require_scale /\ list = <<>> THEN Err(MissingScale)
    ELSE validate_loop(list, 1, ndim, FALSE, FALSE)

-----------------------------------------------------------------------------
(* axes.rs: InvalidAxes::validate.  An Axis is [type, name]; type is one of *)
(* "space", "time", "channel" (Axis::Core) and "custom" (Axis::Custom).    *)
(* The unit is never read by the validator and is left out.                *)

Axis(type, name) == [type |-> type, name |-> name]

InvalidAxes_Count(n) == [kind |-> "Count", n |-> n]

NSpace == [kind |-> "NSpace"]

NTime == [kind |-> "NTime"]

NOther == [kind |-> "NOther"]

InvalidAxes_Order == [kind |-> "Order"]

NonUniqueName == [kind |-> "NonUniqueName"]

\* off by one: a fourth Space axis is let through
validate_axis_FourSpace(st, a) ==
    IF a.name \in st.names THEN Err(NonUniqueName)
    ELSE LET s1 == [st EXCEPT !.names = @ \cup {a.name}] IN
        IF a.type = "space" THEN
            IF s1.space_count > 3 THEN Err(NSpace)
            ELSE Ok([s1 EXCEPT !.space_count = @ + 1])
        ELSE IF a.type = "time" THEN
            IF s1.space_count > 0 \/ s1.has_other THEN Err(InvalidAxes_Order)
            ELSE IF s1.has_time THEN Err(NTime)
            ELSE Ok([s1 EXCEPT !.has_time = TRUE])
        ELSE IF a.type = "channel" THEN
            IF s1.space_count > 0 THEN Err(InvalidAxes_Order)
            ELSE IF s1.has_other THEN Err(NOther)
            ELSE Ok([s1 EXCEPT !.has_other = TRUE])
        ELSE
            IF s1.space_count > 0 THEN Err(InvalidAxes_Order)
            ELSE IF s1.has_other THEN Err(NOther)
            ELSE Ok([s1 EXCEPT !.has_other = TRUE])

\* the Channel arm lacks the order check
validate_axis_ChannelAnywhere(st, a) ==
    IF a.name \in st.names THEN Err(NonUniqueName)
    ELSE LET s1 == [st EXCEPT !.names = @ \cup {a.name}] IN
        IF a.type = "space" THEN
            IF s1.space_count >= 3 THEN Err(NSpace)
            ELSE Ok([s1 EXCEPT !.space_count = @ + 1])
        ELSE IF a.type = "time" THEN
            IF s1.space_count > 0 \/ s1.has_other THEN Err(InvalidAxes_Order)
            ELSE IF s1.has_time THEN Err(NTime)
            ELSE Ok([s1 EXCEPT !.has_time = TRUE])
        ELSE IF a.type = "channel" THEN
            IF s1.has_other THEN Err(NOther)
            ELSE Ok([s1 EXCEPT !.has_other = TRUE])
        ELSE
            IF s1.space_count > 0 THEN Err(InvalidAxes_Order)
            ELSE IF s1.has_other THEN Err(NOther)
            ELSE Ok([s1 EXCEPT !.has_other = TRUE])

\* the body of the loop over axes: Err(e) is the early return, Ok(st) the
\* locals space_count, has_time, has_other, names after the axis
validate_axis(st, a) ==
    IF a.name \in st.names THEN Err(NonUniqueName)
    ELSE LET s1 == [st EXCEPT !.names = @ \cup {a.name}] IN
        IF a.type = "space" THEN
            IF s1.space_count >= 3 THEN Err(NSpace)
            ELSE Ok([s1 EXCEPT !.space_count = @ + 1])
        ELSE IF a.type = "time" THEN
            IF s1.space_count > 0 \/ s1.has_other THEN Err(InvalidAxes_Order)
            ELSE IF s1.has_time THEN Err(NTime)
            ELSE Ok([s1 EXCEPT !.has_time = TRUE])
        ELSE IF a.type = "channel" THEN
            IF s1.space_count > 0 THEN Err(InvalidAxes_Order)
            ELSE IF s1.has_other THEN Err(NOther)
            ELSE Ok([s1 EXCEPT !.has_other = TRUE])
        ELSE
            IF s1.space_count > 0 THEN Err(InvalidAxes_Order)
            ELSE IF s1.has_other THEN Err(NOther)
            ELSE Ok([s1 EXCEPT !.has_other = TRUE])

RECURSIVE validate_axes_loop(_, _, _)
validate_axes_loop(list, i, st) ==
    IF i > Len(list) THEN
        IF st.space_count < 2 THEN Err(NSpace) ELSE Ok(Unit)
    ELSE LET r == validate_axis(st, list[i])
         IN  IF IsErr(r) THEN r ELSE validate_axes_loop(list, i + 1, r.val)

InvalidAxes_validate(list) ==
    IF Len(list) < 2 \/ Len(list) > 5 THEN Err(InvalidAxes_Count(Len(list)))
    ELSE validate_axes_loop(list, 1,
            [space_count |-> 0, has_time |-> FALSE, has_other |-> FALSE, names |-> {}])

-----------------------------------------------------------------------------
(* multiscale.rs: MultiscaleDataset::validate and Multiscale::validate *)

\* InvalidMultiscale: #[from] InvalidAxes
InvalidMultiscale_Axes(e) == [kind |-> "Axes", inner |-> e]

\* InvalidMultiscale: #[from] InvalidCoordinateTransforms
InvalidMultiscale_Transforms(e) == [kind |-> "Transforms", inner |-> e]

MultiscaleDataset_validate(ds, ndim) ==
    InvalidCoordinateTransforms_validate(ds.coordinate_transformations, TRUE, ndim)

\* impl Ndim for Multiscale
Multiscale_ndim(m) == Len(m.axes)

\* a dataset is validated against an unknown dimensionality
validate_dataset_UnknownNdim(ds, ndim) ==
    LET r == MultiscaleDataset_validate(ds, None)
    IN  IF IsErr(r) THEN Err(InvalidMultiscale_Transforms(r.err)) ELSE Ok(Unit)

\* the body of the loop over self.datasets: ds.validate(Some(ndim))?
validate_dataset(ds, ndim) ==
    LET r == MultiscaleDataset_validate(ds, Some(ndim))
    IN  IF IsErr(r) THEN Err(InvalidMultiscale_Transforms(r.err)) ELSE Ok(Unit)

RECURSIVE validate_datasets_loop(_, _, _)
validate_datasets_loop(datasets, i, ndim) ==
    IF i > Len(datasets) THEN Ok(Unit)
    ELSE LET r == validate_dataset(datasets[i], ndim)
         IN  IF IsErr(r) THEN r ELSE validate_datasets_loop(datasets, i + 1, ndim)

\* the group-wide list is not validated
Multiscale_validate_NoGroup(m) ==
    LET a == InvalidAxes_validate(m.axes) IN
    IF IsErr(a) THEN Err(InvalidMultiscale_Axes(a.err))
    ELSE validate_datasets_loop(m.datasets, 1, Multiscale_ndim(m))

Multiscale_validate(m) ==
    LET a == InvalidAxes_validate(m.axes) IN
    IF IsErr(a) THEN Err(InvalidMultiscale_Axes(a.err))
    ELSE LET ndim == Multiscale_ndim(m)
             d == validate_datasets_loop(m.datasets, 1, ndim)
         IN  IF IsErr(d) THEN d
             ELSE IF m.coordinate_transformations # None THEN
                 LET g == InvalidCoordinateTransforms_validate(
                              m.coordinate_transformations[1], FALSE, Some(ndim))
                 IN  IF IsErr(g) THEN Err(InvalidMultiscale_Transforms(g.err))
                     ELSE Ok(Unit)
             ELSE Ok(Unit)

-----------------------------------------------------------------------------
(* plate.rs: Plate::validate.  A String is the sequence of its chars, each *)
(* a one-character string.                                                *)

\* the chars of the inputs for which char::is_alphanumeric holds; "/" and
\* "-" are the others
AlphanumericChars == {"A", "B", "C", "D", "0", "1", "2", "3", "4", "5"}

\* name.chars().all(char::is_alphanumeric)
all_alphanumeric(name) == \A i \in 1..Len(name) : name[i] \in AlphanumericChars

\* format!("{row_name}/{col_name}")
format_well_path(row_name, col_name) == row_name \o <<"/">> \o col_name

Index(name) == [name |-> name]

Acquisition(id, start_time, end_time) ==
    [id |-> id, start_time |-> start_time, end_time |-> end_time]

PlateWell(path, row_index, column_index) ==
    [path |-> path, row_index |-> row_index, column_index |-> column_index]

Plate(acquisitions, columns, rows, wells) ==
    [acquisitions |-> acquisitions, columns |-> columns, rows |-> rows,
     wells |-> wells]

InconsistentWells == [kind |-> "InconsistentWells"]

NonexistentWell(i) == [kind |-> "NonexistentWell", index |-> i]

NonUniqueIndex == [kind |-> "NonUniqueIndex"]

InvalidIndex == [kind |-> "InvalidIndex"]

NonUniqueAcquisitionId == [kind |-> "NonUniqueAcquisitionId"]

AcquisitionTime == [kind |-> "AcquisitionTime"]

\* an acquisition that ends when it starts is rejected
check_acquisition_NoEqual(ids, acq) ==
    IF acq.id \in ids THEN Err(NonUniqueAcquisitionId)
    ELSE IF acq.start_time = None THEN Ok(ids \cup {acq.id})
    ELSE IF acq.end_time = None THEN Ok(ids \cup {acq.id})
    ELSE IF acq.end_time[1] <= acq.start_time[1] THEN Err(AcquisitionTime)
    ELSE Ok(ids \cup {acq.id})

\* the body of the loop over acquisitions: Err(e) is the early return,
\* Ok(ids) the set of ids after the acquisition
check_acquisition(ids, acq) ==
    IF acq.id \in ids THEN Err(NonUniqueAcquisitionId)
    ELSE IF acq.start_time = None THEN Ok(ids \cup {acq.id})
    ELSE IF acq.end_time = None THEN Ok(ids \cup {acq.id})
    ELSE IF acq.end_time[1] < acq.start_time[1] THEN Err(AcquisitionTime)
    ELSE Ok(ids \cup {acq.id})

RECURSIVE validate_acquisitions_loop(_, _, _)
validate_acquisitions_loop(acquisitions, i, ids) ==
    IF i > Len(acquisitions) THEN Ok(Unit)
    ELSE LET r == check_acquisition(ids, acquisitions[i])
         IN  IF IsErr(r) THEN r
             ELSE validate_acquisitions_loop(acquisitions, i + 1, r.val)

validate_acquisitions(acquisitions) == validate_acquisitions_loop(acquisitions, 1, {})

\* the body of the loop over the index names: Err(e) is the early return,
\* Ok(names) the set of names after the index
check_index(names, name) ==
    IF name \in names THEN Err(NonUniqueIndex)
    ELSE IF ~all_alphanumeric(name) THEN Err(InvalidIndex)
    ELSE Ok(names \cup {name})

RECURSIVE validate_index_loop(_, _, _)
validate_index_loop(idxs, i, names) ==
    IF i > Len(idxs) THEN Ok(Unit)
    ELSE LET r == check_index(names, idxs[i].name)
         IN  IF IsErr(r) THEN r ELSE validate_index_loop(idxs, i + 1, r.val)

validate_index(idxs) == validate_index_loop(idxs, 1, {})

\* the stored path is not compared with the resolved names
check_well_NoPathCompare(p, well) ==
    IF well.row_index >= Len(p.rows) THEN Err(NonexistentWell(well.row_index))
    ELSE IF well.column_index >= Len(p.columns)
        THEN Err(NonexistentWell(well.column_index))
    ELSE Ok(Unit)

\* the body of the loop over self.wells; the indices count from 0
check_well(p, well) ==
    IF well.row_index >= Len(p.rows) THEN Err(NonexistentWell(well.row_index))
    ELSE IF well.column_index >= Len(p.columns)
        THEN Err(NonexistentWell(well.column_index))
    ELSE IF well.path # format_well_path(p.rows[well.row_index + 1].name,
                                         p.columns[well.column_index + 1].name)
        THEN Err(InconsistentWells)
    ELSE Ok(Unit)

RECURSIVE validate_wells_loop(_, _)
validate_wells_loop(p, i) ==
    IF i > Len(p.wells) THEN Ok(Unit)
    ELSE LET r == check_well(p, p.wells[i])
         IN  IF IsErr(r) THEN r ELSE validate_wells_loop(p, i + 1)

\* the columns are validated before the rows
Plate_validate_ColumnsFirst(p) ==
    LET c == validate_index(p.columns) IN
    IF IsErr(c) THEN c
    ELSE LET r == validate_index(p.rows) IN
    IF IsErr(r) THEN r
    ELSE LET a == IF p.acquisitions # None
                      THEN validate_acquisitions(p.acquisitions[1])
                      ELSE Ok(Unit) IN
    IF IsErr(a) THEN a
    ELSE validate_wells_loop(p, 1)

Plate_validate(p) ==
    LET r == validate_index(p.rows) IN
    IF IsErr(r) THEN r
    ELSE LET c == validate_index(p.columns) IN
    IF IsErr(c) THEN c
    ELSE LET a == IF p.acquisitions # None
                      THEN validate_acquisitions(p.acquisitions[1])
                      ELSE Ok(Unit) IN
    IF IsErr(a) THEN a
    ELSE validate_wells_loop(p, 1)

-----------------------------------------------------------------------------
(* well.rs: Well::validate *)

FieldOfView(path, acquisition) == [path |-> path, acquisition |-> acquisition]

Well(images) == [images |-> images]

NonUniquePaths == [kind |-> "NonUniquePaths"]

UnknownAcquisition(id) == [kind |-> "UnknownAcquisition", id |-> id]

NoAcquisition == [kind |-> "NoAcquisition"]

InvalidPath == [kind |-> "InvalidPath"]

\* an id is not looked up in the supplied set
check_image_NoLookup(paths, im, acquisitions) ==
    IF ~all_alphanumeric(im.path) THEN Err(InvalidPath)
    ELSE IF im.path \in paths THEN Err(NonUniquePaths)
    ELSE IF acquisitions # None /\ im.acquisition = None THEN Err(NoAcquisition)
    ELSE Ok(paths \cup {im.path})

\* the body of the loop over self.images: Err(e) is the early return,
\* Ok(paths) the set of paths after the image
check_image(paths, im, acquisitions) ==
    IF ~all_alphanumeric(im.path) THEN Err(InvalidPath)
    ELSE IF im.path \in paths THEN Err(NonUniquePaths)
    ELSE IF acquisitions # None THEN
        IF im.acquisition # None THEN
            IF im.acquisition[1] \notin acquisitions[1]
                THEN Err(UnknownAcquisition(im.acquisition[1]))
                ELSE Ok(paths \cup {im.path})
        ELSE Err(NoAcquisition)
    ELSE Ok(paths \cup {im.path})

RECURSIVE validate_images_loop(_, _, _, _)
validate_images_loop(images, i, paths, acquisitions) ==
    IF i > Len(images) THEN Ok(Unit)
    ELSE LET r == check_image(paths, images[i], acquisitions)
         IN  IF IsErr(r) THEN r
             ELSE validate_images_loop(images, i + 1, r.val, acquisitions)

Well_validate(w, acquisitions) == validate_images_loop(w.images, 1, {}, acquisitions)

-----------------------------------------------------------------------------
(* image_label.rs: ImageLabel::validate.  A HashMap is a function on its *)
(* keys.                                                                 *)

Color(label_value, rgba) == [label_value |-> label_value, rgba |-> rgba]

Properties(label_value, metadata) == [label_value |-> label_value, metadata |-> metadata]

ImageLabel(colors, properties) == [colors |-> colors, properties |-> properties]

NonUniqueLabels == [kind |-> "NonUniqueLabels"]

\* HashMap::with_capacity(n): no entries
EmptyMap == [l \in {} |-> None]

\* HashMap::insert: a later value replaces the one of an equal key
MapInsert(accum, key, value) ==
    [l \in DOMAIN accum \cup {key} |-> IF l = key THEN value ELSE accum[l]]

\* the fold of label_colors over cols[i..]: only an entry with an rgba
\* value is inserted
RECURSIVE fold_colors(_, _, _)
fold_colors(cols, i, accum) ==
    IF i > Len(cols) THEN accum
    ELSE fold_colors(cols, i + 1,
            IF cols[i].rgba # None
                THEN MapInsert(accum, cols[i].label_value, cols[i].rgba[1])
                ELSE accum)

label_colors(im) ==
    IF im.colors = None THEN EmptyMap ELSE fold_colors(im.colors[1], 1, EmptyMap)

\* the fold of label_properties over props[i..]
RECURSIVE fold_properties(_, _, _)
fold_properties(props, i, accum) ==
    IF i > Len(props) THEN accum
    ELSE fold_properties(props, i + 1,
            MapInsert(accum, props[i].label_value, props[i].metadata))

label_properties(im) ==
    IF im.properties = None THEN EmptyMap
    ELSE fold_properties(im.properties[1], 1, EmptyMap)

ImageLabel_validate(im) ==
    LET lcs == label_colors(im) IN
    IF DOMAIN lcs # {} /\ Len(im.colors[1]) # Cardinality(DOMAIN lcs)
        THEN Err(NonUniqueLabels)
    ELSE LET lps == label_properties(im) IN
         IF DOMAIN lps # {} /\ Len(im.properties[1]) # Cardinality(DOMAIN lps)
             THEN Err(NonUniqueLabels)
             ELSE Ok(Unit)

-----------------------------------------------------------------------------
(* Inputs *)

\* all sequences over S of length lo..hi
SeqsOf(S, lo, hi) == UNION {[1..n -> S] : n \in lo..hi}

OptDims == {None} \cup {Some(n) : n \in 0..MaxDim}

Vals == {F(1), F(2)}

Vectors == SeqsOf(Vals, 1, MaxCoordLen)

CTs == {Identity, TranslationPath, ScalePath}
         \cup {Translation(v) : v \in Vectors} \cup {Scale(v) : v \in Vectors}

Coords == SeqsOf({F(0), F(1)}, 0, MaxCoordLen)

NoMultiscale == [axes |-> <<>>, datasets |-> <<>>, coordinate_transformations |-> None]

\* an NgffMetadata without image-label, plate and well
NoMetadata == [image_label |-> None, plate |-> None, well |-> None]

\* an inline vector of length n; validation reads nothing but its length
ConstVec(n) == [i \in 1..n |-> F(2)]

\* the lengths of the inline vectors given to validate
Ndims == (1..MaxDim) \cup {MAX_DIMS}

ValidateCTs == {Identity, TranslationPath, ScalePath}
                 \cup {Translation(ConstVec(n)) : n \in Ndims}
                 \cup {Scale(ConstVec(n)) : n \in Ndims}

OptNdims == {None} \cup {Some(n) : n \in Ndims}

\* the transforms of a Multiscale whose levels are transformed
LevelCTs == {Identity, ScalePath, Translation(<<F(1)>>), Scale(<<F(2)>>),
             Scale(<<F(2), F(2)>>)}

LevelPaths == <<"0", "1", "2", "3">>

AxisTypes == {"space", "time", "channel", "custom"}

AxisNames == <<"z", "y", "x", "t", "c", "u", "v", "w">>

\* the names of n axes: pairwise distinct (j = k), or distinct but for
\* axis k, which repeats the name of axis j
AxisNamesWith(n, j, k) == [i \in 1..n |-> IF i = k THEN AxisNames[j] ELSE AxisNames[i]]

RepeatPairs(n) == {<<0, 0>>} \cup {<<j, k>> \in (1..n) \X (1..n) : j < k}

\* n well-formed axes: up to three Space axes last, before them Time and
\* then Channel
WellFormedAxes(n) ==
    [i \in 1..n |-> Axis(IF i > n - Min(n, 3) THEN "space"
                         ELSE IF i = 1 THEN "time" ELSE "channel",
                         AxisNames[i])]

\* the axes of a Multiscale that is validated: well-formed, or all Time
MultiscaleAxes ==
    {WellFormedAxes(n) : n \in 2..MaxMsDim}
      \cup {[i \in 1..n |-> Axis("time", AxisNames[i])] : n \in 2..MaxMsDim}

\* the transform lists of a Multiscale that is validated
MultiscaleLists ==
    {<<>>, <<Identity>>, <<ScalePath>>}
      \cup {<<Scale(ConstVec(k))>> : k \in 2..MaxMsDim}
      \cup {<<Translation(ConstVec(k))>> : k \in 2..MaxMsDim}
      \cup {<<Scale(ConstVec(k)), Translation(ConstVec(k))>> : k \in 2..MaxMsDim}

\* what is wrong with a list of n entries: nothing (<<0, 0>>), entry k
\* repeats entry j (j < k), or entry j is malformed (<<j, j>>)
Defects(n) == {<<0, 0>>} \cup {<<j, k>> \in (1..n) \X (1..n) : j <= k}

\* n index names out of chars: entry k repeats the name of entry j, or the
\* name of entry j is "-"
IndexList(chars, n, j, k) ==
    [i \in 1..n |-> Index(IF j < k /\ i = k THEN <<chars[j]>>
                          ELSE IF j = k /\ i = j THEN <<"-">>
                          ELSE <<chars[i]>>)]

IndexLists(chars, maxn) ==
    UNION {{IndexList(chars, n, d[1], d[2]) : d \in Defects(n)} : n \in 0..maxn}

\* n acquisitions with the ids 1..n, all starting at 10: the first has no
\* end, the second ends at 10, the others later; acquisition k repeats the
\* id of acquisition j, or acquisition j ends at 5
AcquisitionList(n, j, k) ==
    [i \in 1..n |-> Acquisition(IF j < k /\ i = k THEN j ELSE i,
                                Some(10),
                                IF j = k /\ i = j THEN Some(5)
                                ELSE IF i = 1 THEN None
                                ELSE IF i = 2 THEN Some(10) ELSE Some(20))]


-----------------------------------------------------------------------------
(* The calls *)

Running == Len(calls) < MaxCalls /\ \A k \in 1..Len(calls) : ~IsPanic(calls[k].res)

Last == calls[Len(calls)]

-----------------------------------------------------------------------------
(* SpecDims: the reconciler applied to every pair of optional counts *)

InitDims ==
    /\ cs = <<>>
    /\ ms = NoMultiscale
    /\ meta = NoMetadata
    /\ coord = <<>>
    /\ calls = <<>>

CheckDims ==
    /\ Running
    /\ \E d1 \in 0..MaxDim, d2 \in 0..MaxDim :
         calls' = Append(calls, [op |-> "check_dims", dim1 |-> d1, dim2 |-> d2,
                                 pre |-> coord, res |-> check_dims(d1, d2)])
    /\ UNCHANGED <<cs, ms, meta, coord>>

CheckDimOpts ==
    /\ Running
    /\ \E d1 \in OptDims, d2 \in OptDims :
         calls' = Append(calls, [op |-> "check_dim_opts", dim1 |-> d1, dim2 |-> d2,
                                 pre |-> coord, res |-> check_dim_opts(d1, d2)])
    /\ UNCHANGED <<cs, ms, meta, coord>>

UnionNdim ==
    /\ Running
    /\ \E d1 \in OptDims, d2 \in OptDims :
         calls' = Append(calls, [op |-> "union_ndim", dim1 |-> d1, dim2 |-> d2,
                                 pre |-> coord, res |-> union_ndim(d1, d2)])
    /\ UNCHANGED <<cs, ms, meta, coord>>

NextDims == CheckDims \/ CheckDimOpts \/ UnionNdim

SpecDims == InitDims /\ [][NextDims]_vars

-----------------------------------------------------------------------------
(* SpecTransform: apply and invert on a transform list and on its elements *)

InitTransform ==
    /\ cs \in SeqsOf(CTs, 0, MaxLen)
    /\ ms = NoMultiscale
    /\ meta = NoMetadata
    /\ coord \in Coords
    /\ calls = <<>>

\* cs[i].transform(coord)
ElemTransform ==
    /\ Running
    /\ \E i \in 1..Len(cs) :
         LET r == CoordinateTransformation_transform(cs[i], coord)
         IN  /\ coord' = r.coord
             /\ calls' = Append(calls, [op |-> "transform", recv |-> <<"elem", i>>,
                                        pre |-> coord, res |-> r.res])
    /\ UNCHANGED <<cs, ms, meta>>

\* cs[i].rev_transform(coord)
ElemRevTransform ==
    /\ Running
    /\ \E i \in 1..Len(cs) :
         LET r == CoordinateTransformation_rev_transform(cs[i], coord)
         IN  /\ coord' = r.coord
             /\ calls' = Append(calls, [op |-> "rev_transform", recv |-> <<"elem", i>>,
                                        pre |-> coord, res |-> r.res])
    /\ UNCHANGED <<cs, ms, meta>>

\* cs.transform(coord)
SliceTransform ==
    /\ Running
    /\ LET r == Slice_transform(cs, coord)
       IN  /\ coord' = r.coord
           /\ calls' = Append(calls, [op |-> "transform", recv |-> <<"slice", 0>>,
                                      pre |-> coord, res |-> r.res])
    /\ UNCHANGED <<cs, ms, meta>>

\* cs.rev_transform(coord)
SliceRevTransform ==
    /\ Running
    /\ LET r == Slice_rev_transform(cs, coord)
       IN  /\ coord' = r.coord
           /\ calls' = Append(calls, [op |-> "rev_transform", recv |-> <<"slice", 0>>,
                                      pre |-> coord, res |-> r.res])
    /\ UNCHANGED <<cs, ms, meta>>

NextTransform == ElemTransform \/ ElemRevTransform \/ SliceTransform \/ SliceRevTransform

SpecTransform == InitTransform /\ [][NextTransform]_vars

-----------------------------------------------------------------------------
(* SpecAxes: InvalidAxes::validate on an axes list *)

\* ms holds a list of up to maxn axes and nothing else
AxesOnly(maxn) ==
    \E n \in 0..maxn :
        \E ty \in [1..n -> AxisTypes], jk \in RepeatPairs(n) :
            ms = [axes |-> [i \in 1..n |->
                              Axis(ty[i], AxisNamesWith(n, jk[1], jk[2])[i])],
                  datasets |-> <<>>, coordinate_transformations |-> None]

InitAxes ==
    /\ cs = <<>>
    /\ AxesOnly(MaxAxes)
    /\ meta = NoMetadata
    /\ coord = <<>>
    /\ calls = <<>>

\* InvalidAxes::validate(ms.axes)
AxesValidate ==
    /\ Running
    /\ calls' = Append(calls, [op |-> "InvalidAxes::validate", pre |-> coord,
                               res |-> InvalidAxes_validate(ms.axes)])
    /\ UNCHANGED <<cs, ms, meta, coord>>

NextAxes == AxesValidate

SpecAxes == InitAxes /\ [][NextAxes]_vars

-----------------------------------------------------------------------------
(* SpecValidate: InvalidCoordinateTransforms::validate on a transform list *)

InitValidate ==
    /\ cs \in SeqsOf(ValidateCTs, 0, MaxCsLen)
    /\ ms = NoMultiscale
    /\ meta = NoMetadata
    /\ coord = <<>>
    /\ calls = <<>>

\* InvalidCoordinateTransforms::validate(cs, require_scale, ndim)
TransformsValidate ==
    /\ Running
    /\ \E require_scale \in BOOLEAN, ndim \in OptNdims :
         calls' = Append(calls,
            [op |-> "InvalidCoordinateTransforms::validate",
             require_scale |-> require_scale, ndim |-> ndim, pre |-> coord,
             res |-> InvalidCoordinateTransforms_validate(cs, require_scale, ndim)])
    /\ UNCHANGED <<cs, ms, meta, coord>>

NextValidate == TransformsValidate

SpecValidate == InitValidate /\ [][NextValidate]_vars

-----------------------------------------------------------------------------
(* SpecLevel: apply and invert on the levels of a Multiscale *)

InitLevel ==
    /\ cs = <<>>
    /\ \E n \in 1..MaxLevels :
         \E lists \in [1..n -> SeqsOf(LevelCTs, 0, MaxLen)],
            group \in {None} \cup {Some(l) : l \in SeqsOf(LevelCTs, 0, MaxLen)} :
            ms = [axes |-> <<>>,
                  datasets |-> [i \in 1..n |-> MultiscaleDataset(LevelPaths[i], lists[i])],
                  coordinate_transformations |-> group]
    /\ meta = NoMetadata
    /\ coord \in Coords
    /\ calls = <<>>

\* (&ms, level).transform(coord)
LevelTransform ==
    /\ Running
    /\ \E level \in 0..Len(ms.datasets) :
         LET r == Level_transform(ms, level, coord)
         IN  /\ coord' = r.coord
             /\ calls' = Append(calls, [op |-> "transform", recv |-> <<"level", level>>,
                                        pre |-> coord, res |-> r.res])
    /\ UNCHANGED <<cs, ms, meta>>

\* (&ms, level).rev_transform(coord)
LevelRevTransform ==
    /\ Running
    /\ \E level \in 0..Len(ms.datasets) :
         LET r == Level_rev_transform(ms, level, coord)
         IN  /\ coord' = r.coord
             /\ calls' = Append(calls, [op |-> "rev_transform", recv |-> <<"level", level>>,
                                        pre |-> coord, res |-> r.res])
    /\ UNCHANGED <<cs, ms, meta>>

NextLevel == LevelTransform \/ LevelRevTransform

SpecLevel == InitLevel /\ [][NextLevel]_vars

-----------------------------------------------------------------------------
(* SpecMultiscale: Multiscale::validate on a Multiscale *)

InitMultiscale ==
    /\ cs = <<>>
    /\ \E n \in 0..MaxDatasets :
         \E lists \in [1..n -> MultiscaleLists],
            group \in {None} \cup {Some(l) : l \in MultiscaleLists},
            axes \in MultiscaleAxes :
            ms = [axes |-> axes,
                  datasets |-> [i \in 1..n |-> MultiscaleDataset(LevelPaths[i], lists[i])],
                  coordinate_transformations |-> group]
    /\ meta = NoMetadata
    /\ coord = <<>>
    /\ calls = <<>>

\* ms.validate()
MultiscaleValidate ==
    /\ Running
    /\ calls' = Append(calls, [op |-> "Multiscale::validate", pre |-> coord,
                               res |-> Multiscale_validate(ms)])
    /\ UNCHANGED <<cs, ms, meta, coord>>

NextMultiscale == MultiscaleValidate

SpecMultiscale == InitMultiscale /\ [][NextMultiscale]_vars

-----------------------------------------------------------------------------
(* SpecPlate: Plate::validate on a Plate *)

\* the rows are named by letters, the columns by digits; the wells are A/2
\* and B/1 at their places and A/3 at the place of A/1
InitPlate ==
    /\ cs = <<>>
    /\ ms = NoMultiscale
    /\ \E rows \in IndexLists(<<"A", "B", "C", "D">>, MaxRows),
          columns \in IndexLists(<<"1", "2", "3", "4", "5">>, MaxColumns),
          acquisitions \in
              {None} \cup UNION {{Some(AcquisitionList(n, d[1], d[2])) : d \in Defects(n)}
                                    : n \in 0..MaxAcquisitions},
          wells \in SeqsOf({PlateWell(<<"A", "/", "2">>, 0, 1),
                            PlateWell(<<"A", "/", "3">>, 0, 0),
                            PlateWell(<<"B", "/", "1">>, 1, 0)}, 0, MaxWells) :
          meta = [NoMetadata EXCEPT
                    !.plate = Some(Plate(acquisitions, columns, rows, wells))]
    /\ coord = <<>>
    /\ calls = <<>>

\* the wells are dropped after they have been validated
PlateValidate_DropsWells ==
    /\ Running
    /\ meta.plate # None
    /\ calls' = Append(calls, [op |-> "Plate::validate", pre |-> coord,
                               res |-> Plate_validate(meta.plate[1])])
    /\ meta' = [meta EXCEPT !.plate = Some([meta.plate[1] EXCEPT !.wells = <<>>])]
    /\ UNCHANGED <<cs, ms, coord>>

\* plate.validate()
PlateValidate ==
    /\ Running
    /\ meta.plate # None
    /\ calls' = Append(calls, [op |-> "Plate::validate", pre |-> coord,
                               res |-> Plate_validate(meta.plate[1])])
    /\ UNCHANGED <<cs, ms, meta, coord>>

NextPlate == PlateValidate

SpecPlate == InitPlate /\ [][NextPlate]_vars

-----------------------------------------------------------------------------
(* SpecWell: Well::validate on a Well *)

InitWell ==
    /\ cs = <<>>
    /\ ms = NoMultiscale
    /\ \E images \in SeqsOf({FieldOfView(path, acq) :
                                  path \in {<<"0">>, <<"1">>, <<"-">>},
                                  acq \in {None, Some(1), Some(3)}}, 0, MaxImages) :
          meta = [NoMetadata EXCEPT !.well = Some(Well(images))]
    /\ coord = <<>>
    /\ calls = <<>>

\* well.validate(acquisitions)
WellValidate ==
    /\ Running
    /\ meta.well # None
    /\ \E acquisitions \in {None} \cup {Some(S) : S \in SUBSET {1, 2}} :
         calls' = Append(calls, [op |-> "Well::validate", acquisitions |-> acquisitions,
                                 pre |-> coord,
                                 res |-> Well_validate(meta.well[1], acquisitions)])
    /\ UNCHANGED <<cs, ms, meta, coord>>

NextWell == WellValidate

SpecWell == InitWell /\ [][NextWell]_vars

-----------------------------------------------------------------------------
(* SpecLabel: ImageLabel::validate on an ImageLabel *)

\* the label values are 1..MaxLabel; a color entry has an rgba value or
\* none
InitLabel ==
    /\ cs = <<>>
    /\ ms = NoMultiscale
    /\ \E colors \in {None} \cup
              {Some(l) : l \in SeqsOf({Color(v, rgba) : v \in 1..MaxLabel,
                                          rgba \in {None, Some(<<255, 0, 0, 255>>)}},
                                      0, MaxEntries)},
          properties \in {None} \cup
              {Some(l) : l \in SeqsOf({Properties(v, "m") : v \in 1..MaxLabel},
                                      0, MaxEntries)} :
          meta = [NoMetadata EXCEPT !.image_label = Some(ImageLabel(colors, properties))]
    /\ coord = <<>>
    /\ calls = <<>>

\* image_label.validate()
LabelValidate ==
    /\ Running
    /\ meta.image_label # None
    /\ calls' = Append(calls, [op |-> "ImageLabel::validate", pre |-> coord,
                               res |-> ImageLabel_validate(meta.image_label[1])])
    /\ UNCHANGED <<cs, ms, meta, coord>>

NextLabel == LabelValidate

SpecLabel == InitLabel /\ [][NextLabel]_vars

-----------------------------------------------------------------------------
(* SpecApplied: a Multiscale is validated and its levels are applied *)

\* the lists of the datasets are an Identity, a path Scale, an inline Scale
\* or an inline Scale and Translation; the group-wide list is absent, empty
\* or an inline Scale
InitApplied ==
    /\ cs = <<>>
    /\ \E n \in 1..MaxLevels :
         \E lists \in [1..n ->
                  {<<Identity>>, <<ScalePath>>}
                    \cup {<<Scale(ConstVec(k))>> : k \in 2..MaxMsDim}
                    \cup {<<Scale(ConstVec(k)), Translation(ConstVec(k))>>
                             : k \in 2..MaxMsDim}],
            group \in {None, Some(<<>>)}
                        \cup {Some(<<Scale(ConstVec(k))>>) : k \in 2..MaxMsDim},
            d \in 2..MaxMsDim :
            ms = [axes |-> WellFormedAxes(d),
                  datasets |-> [i \in 1..n |-> MultiscaleDataset(LevelPaths[i], lists[i])],
                  coordinate_transformations |-> group]
    /\ meta = NoMetadata
    /\ coord \in {[i \in 1..k |-> F(1)] : k \in 2..MaxMsDim}
    /\ calls = <<>>

NextApplied == MultiscaleValidate \/ LevelTransform \/ LevelRevTransform

SpecApplied == InitApplied /\ [][NextApplied]_vars

-----------------------------------------------------------------------------
(* Spec: every validator, each on the document the caller holds: an axes  *)
(* list, a transform list, a Multiscale, a Plate or a Well                *)

Init ==
    \/ /\ cs = <<>>
       /\ AxesOnly(MaxScanAxes)
       /\ meta = NoMetadata
       /\ coord = <<>>
       /\ calls = <<>>
    \/ /\ cs \in MultiscaleLists
       /\ ms = NoMultiscale
       /\ meta = NoMetadata
       /\ coord = <<>>
       /\ calls = <<>>
    \/ InitMultiscale
    \/ InitPlate
    \/ InitWell

\* axes are validated alone where ms holds axes only, a transform list
\* where there is no other document, a Multiscale where there is one
Next ==
    \/ /\ ms # NoMultiscale
       /\ ms.datasets = <<>> /\ ms.coordinate_transformations = None
       /\ AxesValidate
    \/ /\ ms = NoMultiscale /\ meta = NoMetadata
       /\ TransformsValidate
    \/ /\ ms # NoMultiscale
       /\ MultiscaleValidate
    \/ PlateValidate
    \/ WellValidate

Spec == Init /\ [][Next]_vars

-----------------------------------------------------------------------------
(* Claims on the transform pipeline (SpecTransform) *)

\* the buffer right after call k
Post(k) == IF k = Len(calls) THEN coord ELSE calls[k + 1].pre

OnSlice(c) == c.recv[1] = "slice"

OnElem(c) == c.recv[1] = "elem"

\* every element is an inline Translation or Scale of length n
AllInlineOfLen(list, n) ==
    \A i \in 1..Len(list) : IsInline(list[i]) /\ Len(InlineVec(list[i])) = n

\* a transform call followed by the rev_transform call on the same list
SliceRoundTrip ==
    /\ Len(calls) = 2
    /\ OnSlice(calls[1]) /\ calls[1].op = "transform"
    /\ OnSlice(calls[2]) /\ calls[2].op = "rev_transform"

\* C1: for a list of inline Translation and Scale transforms that all have
\* the buffer's length, transform followed by rev_transform leaves the
\* buffer equal to its value before the two calls.
C1_SliceRoundTrip ==
    (SliceRoundTrip /\ AllInlineOfLen(cs, Len(calls[1].pre)))
        => coord = calls[1].pre

\* C3: applying or inverting one inline Translation or Scale of length k on
\* a buffer of length n # k returns the dimensionality error carrying k and
\* n, and the buffer is what it was before the call.
C3_MismatchIsError ==
    \A k \in 1..Len(calls) :
        LET c == calls[k] IN
        (OnElem(c) /\ IsInline(cs[c.recv[2]])
                   /\ Len(InlineVec(cs[c.recv[2]])) # Len(c.pre))
            => /\ c.res = Err(InconsistentDimensionality(
                                Len(InlineVec(cs[c.recv[2]])), Len(c.pre)))
               /\ Post(k) = c.pre

\* an inline Scale of length 2 was inverted on a buffer of length 1, and an
\* inline Translation of length 1 was applied to a buffer of length 2
C3_Witness ==
    \/ /\ Len(calls) = 1 /\ OnElem(Last) /\ Last.op = "rev_transform"
       /\ IsScale(cs[Last.recv[2]]) /\ IsInline(cs[Last.recv[2]])
       /\ Len(cs[Last.recv[2]].scale) = 2 /\ Len(Last.pre) = 1
       /\ IsErr(Last.res)
    \/ /\ Len(calls) = 1 /\ OnElem(Last) /\ Last.op = "transform"
       /\ IsTranslation(cs[Last.recv[2]]) /\ IsInline(cs[Last.recv[2]])
       /\ Len(cs[Last.recv[2]].translation) = 1 /\ Len(Last.pre) = 2
       /\ IsErr(Last.res)

\* C4: every apply/invert call that returns a dimensionality error leaves
\* the buffer unmodified, also on a list whose earlier element matches the
\* buffer length and whose later element does not.
C4_NoPartialApplication ==
    \A k \in 1..Len(calls) : IsErr(calls[k].res) => Post(k) = calls[k].pre

\* the receiver of the call is, or holds, a reference-valued transform
RecvHasPath(c) ==
    IF OnElem(c) THEN IsPath(cs[c.recv[2]])
    ELSE \E i \in 1..Len(cs) : IsPath(cs[i])

\* C5: apply or invert on a reference-valued Translation or Scale, directly
\* or inside a list, ends in a returned error: no panic, no success.
C5_PathIsOrdinaryError ==
    \A k \in 1..Len(calls) : RecvHasPath(calls[k]) => IsErr(calls[k].res)

-----------------------------------------------------------------------------
(* Claims on the dimensionality reconciler (SpecDims) *)

IsReconcile(c) == c.op \in {"check_dim_opts", "union_ndim"}

\* C6: check_dim_opts and union_ndim return b when a is absent, a when b is
\* absent, the common value when both are present and equal, and otherwise
\* the error carrying (a, b); a successful result is the same with the
\* arguments swapped, and both operations agree.
C6_Reconcile ==
    /\ \A k \in 1..Len(calls) :
         LET c == calls[k] IN
         IsReconcile(c) =>
           /\ (c.dim1 = None => c.res = Ok(c.dim2))
           /\ (c.dim2 = None => c.res = Ok(c.dim1))
           /\ (c.dim1 # None /\ c.dim2 # None /\ c.dim1 = c.dim2
                 => c.res = Ok(c.dim1))
           /\ (c.dim1 # None /\ c.dim2 # None /\ c.dim1 # c.dim2
                 => c.res = Err(InconsistentDimensionality(c.dim1[1], c.dim2[1])))
    /\ \A j, k \in 1..Len(calls) :
         (IsReconcile(calls[j]) /\ IsReconcile(calls[k]) /\ IsOk(calls[j].res)
            /\ calls[j].dim1 = calls[k].dim2 /\ calls[j].dim2 = calls[k].dim1)
           => calls[k].res = calls[j].res
    /\ \A j, k \in 1..Len(calls) :
         (IsReconcile(calls[j]) /\ IsReconcile(calls[k])
            /\ calls[j].dim1 = calls[k].dim1 /\ calls[j].dim2 = calls[k].dim2)
           => calls[k].res = calls[j].res

\* check_dim_opts merged an unknown count with 2, then union_ndim rejected
\* the known counts 1 and 2
C6_Witness ==
    /\ Len(calls) = 2
    /\ calls[1].op = "check_dim_opts"
    /\ calls[1].dim1 = None /\ calls[1].dim2 = Some(2) /\ calls[1].res = Ok(Some(2))
    /\ calls[2].op = "union_ndim"
    /\ calls[2].dim1 = Some(1) /\ calls[2].dim2 = Some(2) /\ IsErr(calls[2].res)

-----------------------------------------------------------------------------
(* Claims on the axes validator (SpecAxes) *)

IsAxesValidate(c) == c.op = "InvalidAxes::validate"

IsOther(a) == a.type \in {"channel", "custom"}

CountOf(list, types) == Cardinality({i \in 1..Len(list) : list[i].type \in types})

DistinctNames(list) ==
    \A i, j \in 1..Len(list) : i # j => list[i].name # list[j].name

\* [at most one Time] [at most one Channel-or-Custom] Space{2,3}
LegalShape(list) ==
    \E nt \in 0..1, no \in 0..1, ns \in 2..3 :
        /\ Len(list) = nt + no + ns
        /\ \A i \in 1..Len(list) :
             IF i <= nt THEN list[i].type = "time"
             ELSE IF i <= nt + no THEN IsOther(list[i])
             ELSE list[i].type = "space"

\* C7: InvalidAxes::validate succeeds exactly on the lists of the shape
\* [at most one Time] [at most one Channel-or-Custom] Space{2,3} whose names
\* are pairwise distinct.
C7_AxesAcceptedExactly ==
    \A k \in 1..Len(calls) :
        IsAxesValidate(calls[k])
            => (IsOk(calls[k].res) <=> (LegalShape(ms.axes) /\ DistinctNames(ms.axes)))

\* a list of five axes with a Custom axis in second place was accepted
C7_Witness ==
    /\ Len(calls) = 1 /\ IsAxesValidate(Last) /\ IsOk(Last.res)
    /\ Len(ms.axes) = 5 /\ ms.axes[1].type = "time" /\ ms.axes[2].type = "custom"

AxesRules == {"Count", "NSpace", "NTime", "NOther", "Order", "NonUniqueName"}

\* the axes rule r is violated by the list
Broken(r, list) ==
    CASE r = "Count"  -> Len(list) < 2 \/ Len(list) > 5
      [] r = "NSpace" -> CountOf(list, {"space"}) < 2 \/ CountOf(list, {"space"}) > 3
      [] r = "NTime"  -> CountOf(list, {"time"}) > 1
      [] r = "NOther" -> CountOf(list, {"channel", "custom"}) > 1
      [] r = "Order"  ->
            \E i, j \in 1..Len(list) :
                /\ i < j
                /\ \/ list[j].type = "time" /\ (IsOther(list[i]) \/ list[i].type = "space")
                   \/ IsOther(list[j]) /\ list[i].type = "space"
      [] r = "NonUniqueName" -> ~DistinctNames(list)

RulesBroken(list) == {r \in AxesRules : Broken(r, list)}

ErrorOfRule(r, list) ==
    CASE r = "Count"  -> InvalidAxes_Count(Len(list))
      [] r = "NSpace" -> NSpace
      [] r = "NTime"  -> NTime
      [] r = "NOther" -> NOther
      [] r = "Order"  -> InvalidAxes_Order
      [] r = "NonUniqueName" -> NonUniqueName

\* C8 (checked as C8_AxesErrors): on a list that violates exactly one axes
\* rule, InvalidAxes::validate returns the error of that rule.
C8_SingleViolationError ==
    \A k \in 1..Len(calls) :
        (IsAxesValidate(calls[k]) /\ Cardinality(RulesBroken(ms.axes)) = 1)
            => \A r \in RulesBroken(ms.axes) :
                  calls[k].res = Err(ErrorOfRule(r, ms.axes))

\* C8, the Count rule: a length outside [2,5] always breaks the Space rule or
\* a multiplicity rule as well, and the answer is Count whatever else is
\* wrong.
C8_CountFirst ==
    \A k \in 1..Len(calls) :
        (IsAxesValidate(calls[k]) /\ Broken("Count", ms.axes))
            => calls[k].res = Err(InvalidAxes_Count(Len(ms.axes)))

C8_AxesErrors == C8_SingleViolationError /\ C8_CountFirst

\* a list whose only violation is a Channel axis after a Space axis was
\* rejected with Order
C8_Witness ==
    /\ Len(calls) = 1 /\ IsAxesValidate(Last)
    /\ RulesBroken(ms.axes) = {"Order"}
    /\ \E i \in 1..Len(ms.axes) : ms.axes[i].type = "channel"
    /\ Last.res = Err(InvalidAxes_Order)

-----------------------------------------------------------------------------
(* Claims on the transform set validator (SpecValidate) *)

IsTransformsValidate(c) == c.op = "InvalidCoordinateTransforms::validate"

InlineIdx(list) == {i \in 1..Len(list) : IsInline(list[i])}

\* C9: a successful validate returns the reconciled dimensionality: the
\* incoming one when it is known, otherwise the common length of the inline
\* vectors, and unknown only when the incoming one is unknown and no element
\* is inline; a single inline Scale of length 5 validated against 5 yields 5.
C9_ReturnsReconciledNdim ==
    \A k \in 1..Len(calls) :
        LET c == calls[k] IN
        IsTransformsValidate(c) =>
          /\ IsOk(c.res) =>
               /\ (c.ndim # None => c.res.val = c.ndim)
               /\ (c.ndim = None =>
                     \A i \in InlineIdx(cs) : c.res.val = Some(Len(InlineVec(cs[i]))))
               /\ (c.res.val = None <=> (c.ndim = None /\ InlineIdx(cs) = {}))
          /\ (cs = <<Scale(ConstVec(5))>> /\ c.ndim = Some(5))
               => c.res = Ok(Some(5))

\* [Scale, Translation], both inline of length 2, validated against an
\* unknown dimensionality gave 2; validated again against 2 it gave 2
C9_Witness ==
    /\ Len(calls) = 2
    /\ cs = <<Scale(ConstVec(2)), Translation(ConstVec(2))>>
    /\ IsTransformsValidate(calls[1]) /\ calls[1].ndim = None
    /\ calls[1].res = Ok(Some(2))
    /\ IsTransformsValidate(calls[2]) /\ calls[2].ndim = Some(2)
    /\ calls[2].res = Ok(Some(2))

\* the single inline Scale of length 5 validated against 5
C9_ExampleReached ==
    /\ Len(calls) = 1 /\ cs = <<Scale(ConstVec(5))>>
    /\ IsTransformsValidate(Last) /\ Last.ndim = Some(5) /\ Last.res = Ok(Some(5))

\* element i is a second Scale or a second Translation
IsRepeat(list, i) ==
    \E j \in 1..(i - 1) : list[j].type = list[i].type /\ list[i].type # "identity"

HasRepeat(list) == \E i \in 1..Len(list) : IsRepeat(list, i)

\* C10 as stated: a second Scale or a second Translation makes validate
\* fail with Count, for every list and every incoming dimensionality.
C10_RepeatIsCount ==
    \A k \in 1..Len(calls) :
        (IsTransformsValidate(calls[k]) /\ HasRepeat(cs))
            => (IsErr(calls[k].res) /\ calls[k].res.err.kind = "Count")

\* the known dimensionalities among the incoming one and elements 1..i
KnownNdims(list, i, ndim) ==
    {ndim[1] : x \in {y \in {ndim} : y # None}}
      \cup {Len(InlineVec(list[j])) : j \in {m \in 1..i : IsInline(list[m])}}

\* the repeat at element i is the first violation in list order: before it
\* come a Scale and at most a Translation, and the incoming dimensionality
\* and the inline lengths up to element i agree
RepeatIsFirstViolation(list, i, ndim) ==
    /\ IsRepeat(list, i)
    /\ i \in {2, 3}
    /\ IsScale(list[1])
    /\ (i = 3 => IsTranslation(list[2]))
    /\ Cardinality(KnownNdims(list, i, ndim)) <= 1

\* C10 as amended: a second Scale or a second Translation makes validate
\* fail; the error is Count when the repeat is the first violation in list
\* order.
C10_RepeatFails ==
    \A k \in 1..Len(calls) :
        LET c == calls[k] IN
        IsTransformsValidate(c) =>
          /\ HasRepeat(cs) => IsErr(c.res)
          /\ \A i \in 1..Len(cs) :
               RepeatIsFirstViolation(cs, i, c.ndim) =>
                 c.res = Err(InvalidCoordinateTransforms_Count(
                            IF IsScale(cs[i]) THEN "Multiple scales found"
                            ELSE "Multiple translations found"))

\* [Scale, Scale] of equal length was rejected with Count
C10_Witness ==
    /\ Len(calls) = 1 /\ IsTransformsValidate(Last)
    /\ Len(cs) = 2 /\ IsScale(cs[1]) /\ IsScale(cs[2])
    /\ IsInline(cs[1]) /\ cs[1] = cs[2]
    /\ Last.res = Err(InvalidCoordinateTransforms_Count("Multiple scales found"))

\* element i is a Translation with no Scale among the elements before it
IsUnscaledTranslation(list, i) ==
    /\ IsTranslation(list[i])
    /\ \A j \in 1..(i - 1) : ~IsScale(list[j])

HasUnscaledTranslation(list) ==
    \E i \in 1..Len(list) : IsUnscaledTranslation(list, i)

\* C11 as stated: a Translation at a position where no Scale has appeared
\* earlier makes validate fail with Order, whether or not Scale is mandatory.
C11_UnscaledTranslationIsOrder ==
    \A k \in 1..Len(calls) :
        (IsTransformsValidate(calls[k]) /\ HasUnscaledTranslation(cs))
            => calls[k].res = Err(InvalidCoordinateTransforms_Order)

\* C11 as amended: a Translation with no Scale before it makes validate
\* fail, whether or not Scale is mandatory; the error is Order when that
\* Translation is the first element and its inline length does not differ
\* from a known incoming dimensionality. A list holding only a Translation
\* is rejected also when Scale is not mandatory.
C11_UnscaledTranslationFails ==
    \A k \in 1..Len(calls) :
        LET c == calls[k] IN
        IsTransformsValidate(c) =>
          /\ HasUnscaledTranslation(cs) => IsErr(c.res)
          /\ (/\ Len(cs) >= 1 /\ IsTranslation(cs[1])
              /\ Cardinality(KnownNdims(cs, 1, c.ndim)) <= 1)
               => c.res = Err(InvalidCoordinateTransforms_Order)
          /\ (Len(cs) = 1 /\ IsTranslation(cs[1]) /\ ~c.require_scale)
               => IsErr(c.res)

\* a list holding only a Translation of length 2, validated against 2 with
\* Scale not mandatory, was rejected with Order
C11_Witness ==
    /\ Len(calls) = 1 /\ IsTransformsValidate(Last)
    /\ cs = <<Translation(ConstVec(2))>>
    /\ ~Last.require_scale /\ Last.ndim = Some(2)
    /\ Last.res = Err(InvalidCoordinateTransforms_Order)

\* the list is <<Scale>>, <<Scale, Translation>> or, when Scale is not
\* mandatory, empty
AcceptedShape(list, require_scale) ==
    \/ Len(list) = 1 /\ IsScale(list[1])
    \/ Len(list) = 2 /\ IsScale(list[1]) /\ IsTranslation(list[2])
    \/ ~require_scale /\ Len(list) = 0

\* C12: validate succeeds exactly when the list is <<Scale>>, <<Scale,
\* Translation>> or (Scale not mandatory) empty, and the incoming
\* dimensionality and all known inline lengths are equal; so an empty list
\* with Scale mandatory fails with MissingScale, a list containing Identity
\* fails, and a list accepted with Scale mandatory holds exactly one Scale.
C12_AcceptedExactly ==
    \A k \in 1..Len(calls) :
        LET c == calls[k] IN
        IsTransformsValidate(c) =>
          /\ IsOk(c.res) <=>
               /\ AcceptedShape(cs, c.require_scale)
               /\ Cardinality(KnownNdims(cs, Len(cs), c.ndim)) <= 1
          /\ (cs = <<>> /\ c.require_scale) => c.res = Err(MissingScale)
          /\ (\E i \in 1..Len(cs) : cs[i] = Identity) => IsErr(c.res)
          /\ (IsOk(c.res) /\ c.require_scale)
               => Cardinality({i \in 1..Len(cs) : IsScale(cs[i])}) = 1

\* <<Scale, Translation>>, both inline of length 2, was accepted against 2
\* with Scale mandatory and rejected against 3
C12_Witness ==
    /\ Len(calls) = 2
    /\ cs = <<Scale(ConstVec(2)), Translation(ConstVec(2))>>
    /\ IsTransformsValidate(calls[1]) /\ calls[1].require_scale
    /\ calls[1].ndim = Some(2) /\ IsOk(calls[1].res)
    /\ IsTransformsValidate(calls[2]) /\ calls[2].require_scale
    /\ calls[2].ndim = Some(3) /\ IsErr(calls[2].res)

-----------------------------------------------------------------------------
(* Claims on the levels of a Multiscale (SpecLevel) *)

OnLevel(c) == c.recv[1] = "level"

GroupList(m) ==
    IF m.coordinate_transformations = None THEN <<>> ELSE m.coordinate_transformations[1]

\* the effect of one inline element, and of a list of them in list order
ApplyOne(c, x) == IF IsTranslation(c) THEN ZipAdd(x, c.translation) ELSE ZipMul(x, c.scale)

RECURSIVE ApplyInOrder(_, _, _)
ApplyInOrder(list, i, x) ==
    IF i > Len(list) THEN x ELSE ApplyInOrder(list, i + 1, ApplyOne(list[i], x))

\* C2: (m, i).transform applies the transforms of dataset i in list order
\* and then the group-wide ones in list order, and (m, i).rev_transform
\* after it restores any coordinate of matching length.
C2_LevelComposition ==
    \A k \in 1..Len(calls) :
        LET c == calls[k]
            i == c.recv[2]
            n == Len(c.pre)
        IN  (/\ OnLevel(c) /\ c.op = "transform" /\ i < Len(ms.datasets)
             /\ AllInlineOfLen(ms.datasets[i + 1].coordinate_transformations, n)
             /\ AllInlineOfLen(GroupList(ms), n))
            => /\ IsOk(c.res)
               /\ Post(k) = ApplyInOrder(GroupList(ms), 1,
                               ApplyInOrder(ms.datasets[i + 1].coordinate_transformations,
                                            1, c.pre))
               /\ (/\ k = 1 /\ Len(calls) = 2 /\ OnLevel(calls[2])
                   /\ calls[2].op = "rev_transform" /\ calls[2].recv = c.recv)
                  => (IsOk(calls[2].res) /\ coord = c.pre)

-----------------------------------------------------------------------------
(* Claims on Multiscale::validate (SpecMultiscale) *)

IsMultiscaleValidate(c) == c.op = "Multiscale::validate"

AxesAccepted(m) == LegalShape(m.axes) /\ DistinctNames(m.axes)

\* the list has an accepted shape and its known inline lengths equal n
ListAccepted(list, require_scale, n) ==
    /\ AcceptedShape(list, require_scale)
    /\ Cardinality(KnownNdims(list, Len(list), Some(n))) <= 1

DatasetAccepted(m, i) ==
    ListAccepted(m.datasets[i].coordinate_transformations, TRUE, Len(m.axes))

GroupAccepted(m) ==
    m.coordinate_transformations # None
        => ListAccepted(m.coordinate_transformations[1], FALSE, Len(m.axes))

\* the first transform of dataset i is inline and its length differs from
\* the number of axes; the axes and the datasets before i are accepted
FirstConflictAt(m, i) ==
    /\ AxesAccepted(m)
    /\ \A j \in 1..(i - 1) : DatasetAccepted(m, j)
    /\ Len(m.datasets[i].coordinate_transformations) >= 1
    /\ IsInline(m.datasets[i].coordinate_transformations[1])
    /\ Len(InlineVec(m.datasets[i].coordinate_transformations[1])) # Len(m.axes)

DimensionalityConflict(n, k) ==
    InvalidMultiscale_Transforms(Dimensions(InconsistentDimensionality(n, k)))

\* the error value has a component that holds the dataset
NamesDataset(e, ds) == "dataset" \in DOMAIN e /\ e.dataset = ds.path

\* C13 as stated, for the dataset that is reached first: a dataset holding
\* an inline transform whose length differs from the number of axes makes
\* Multiscale::validate fail with a dimensionality conflict, and the returned
\* error names that dataset.
C13_ConflictNamesDataset ==
    \A k \in 1..Len(calls) :
        IsMultiscaleValidate(calls[k]) =>
          \A i \in 1..Len(ms.datasets) :
            FirstConflictAt(ms, i) =>
              /\ IsErr(calls[k].res)
              /\ calls[k].res.err.kind = "Transforms"
              /\ calls[k].res.err.inner.kind = "Dimensions"
              /\ NamesDataset(calls[k].res.err, ms.datasets[i])

\* C13 as amended: Multiscale::validate with n axes succeeds exactly when the
\* axes are accepted, every dataset's list is accepted with Scale mandatory
\* against n, and the group-wide list, if present, is accepted with Scale
\* not mandatory against n; a dataset whose first transform is inline of a
\* length k different from n, reached with nothing rejected before it, makes
\* it fail with the dimensionality conflict that carries n and k and nothing
\* else.
C13_DatasetsValidated ==
    \A k \in 1..Len(calls) :
        LET c == calls[k] IN
        IsMultiscaleValidate(c) =>
          /\ IsOk(c.res) <=>
               /\ AxesAccepted(ms)
               /\ \A i \in 1..Len(ms.datasets) : DatasetAccepted(ms, i)
               /\ GroupAccepted(ms)
          /\ \A i \in 1..Len(ms.datasets) :
               FirstConflictAt(ms, i) =>
                 c.res = Err(DimensionalityConflict(Len(ms.axes),
                            Len(InlineVec(ms.datasets[i].coordinate_transformations[1]))))

\* two axes, the first dataset a Scale of length 2, the second a Scale of
\* length 3: rejected with the conflict of 2 and 3
C13_Witness ==
    /\ Len(calls) = 1 /\ IsMultiscaleValidate(Last)
    /\ Len(ms.axes) = 2 /\ Len(ms.datasets) = 2
    /\ ms.datasets[1].coordinate_transformations = <<Scale(ConstVec(2))>>
    /\ ms.datasets[2].coordinate_transformations = <<Scale(ConstVec(3))>>
    /\ Last.res = Err(DimensionalityConflict(2, 3))

-----------------------------------------------------------------------------
(* Claims on Plate::validate (SpecPlate) *)

IsPlateValidate(c) == c.op = "Plate::validate"

\* the names are pairwise distinct and made of alphanumeric chars
IndexAccepted(idxs) ==
    /\ \A i, j \in 1..Len(idxs) : i # j => idxs[i].name # idxs[j].name
    /\ \A i \in 1..Len(idxs) :
         \A m \in 1..Len(idxs[i].name) : idxs[i].name[m] \in AlphanumericChars

DistinctIds(acqs) ==
    \A i, j \in 1..Len(acqs) : i # j => acqs[i].id # acqs[j].id

EndsBeforeStart(acq) ==
    /\ acq.start_time # None /\ acq.end_time # None
    /\ acq.end_time[1] < acq.start_time[1]

AcquisitionsAccepted(p) ==
    p.acquisitions # None =>
        /\ DistinctIds(p.acquisitions[1])
        /\ \A i \in 1..Len(p.acquisitions[1]) : ~EndsBeforeStart(p.acquisitions[1][i])

RowInRange(p, w) == w.row_index < Len(p.rows)

ColumnInRange(p, w) == w.column_index < Len(p.columns)

WellAccepted(p, w) ==
    /\ RowInRange(p, w) /\ ColumnInRange(p, w)
    /\ w.path = p.rows[w.row_index + 1].name \o <<"/">>
                   \o p.columns[w.column_index + 1].name

\* C14: Plate::validate succeeds exactly when the row names are distinct and
\* alphanumeric, the column names are distinct and alphanumeric, the
\* acquisitions, if present, have distinct ids and none with both timestamps
\* ends before it starts (ending when it starts and having no end are
\* accepted, ending earlier gives the acquisition-time error), and every
\* well's indices are in range and its path is "{row_name}/{column_name}".
C14_PlateAcceptedExactly ==
    \A k \in 1..Len(calls) :
        LET c == calls[k]
            p == meta.plate[1]
        IN  IsPlateValidate(c) =>
              /\ IsOk(c.res) <=>
                   /\ IndexAccepted(p.rows)
                   /\ IndexAccepted(p.columns)
                   /\ AcquisitionsAccepted(p)
                   /\ \A i \in 1..Len(p.wells) : WellAccepted(p, p.wells[i])
              /\ (/\ IndexAccepted(p.rows) /\ IndexAccepted(p.columns)
                  /\ p.acquisitions # None /\ DistinctIds(p.acquisitions[1])
                  /\ \E i \in 1..Len(p.acquisitions[1]) :
                        EndsBeforeStart(p.acquisitions[1][i]))
                   => c.res = Err(AcquisitionTime)

\* a plate with rows A, B, an acquisition without end and one that ends when
\* it starts, and the wells A/2 and B/1 was accepted
C14_Witness ==
    /\ Len(calls) = 1 /\ IsPlateValidate(Last) /\ IsOk(Last.res)
    /\ Len(meta.plate[1].rows) = 2
    /\ meta.plate[1].acquisitions =
         Some(<<Acquisition(1, Some(10), None), Acquisition(2, Some(10), Some(10))>>)
    /\ meta.plate[1].wells = <<PlateWell(<<"A", "/", "2">>, 0, 1),
                               PlateWell(<<"B", "/", "1">>, 1, 0)>>

\* the error of a well that is not accepted
WellError(p, w) ==
    IF ~RowInRange(p, w) THEN NonexistentWell(w.row_index)
    ELSE IF ~ColumnInRange(p, w) THEN NonexistentWell(w.column_index)
    ELSE InconsistentWells

\* C15: with rows, columns and acquisitions valid, the first well that is
\* not accepted decides the result: an index out of range gives
\* NonexistentWell with that index, indices that resolve to another path give
\* InconsistentWells; with rows A, B and columns 1, 2, 3 the well A/3 at
\* (0, 0) fails as inconsistent and the well A/2 at (0, 1) validates.
C15_WellErrors ==
    \A k \in 1..Len(calls) :
        LET c == calls[k]
            p == meta.plate[1]
        IN  (/\ IsPlateValidate(c)
             /\ IndexAccepted(p.rows) /\ IndexAccepted(p.columns)
             /\ AcquisitionsAccepted(p)) =>
              /\ \A i \in 1..Len(p.wells) :
                   (/\ \A j \in 1..(i - 1) : WellAccepted(p, p.wells[j])
                    /\ ~WellAccepted(p, p.wells[i]))
                     => c.res = Err(WellError(p, p.wells[i]))
              /\ (/\ p.rows = <<Index(<<"A">>), Index(<<"B">>)>>
                  /\ p.columns = <<Index(<<"1">>), Index(<<"2">>), Index(<<"3">>)>>)
                   => /\ p.wells = <<PlateWell(<<"A", "/", "3">>, 0, 0)>>
                           => c.res = Err(InconsistentWells)
                      /\ p.wells = <<PlateWell(<<"A", "/", "2">>, 0, 1)>>
                           => c.res = Ok(Unit)

\* rows A, B, columns 1, 2, 3: the single well A/3 at (0, 0) was rejected as
\* inconsistent
C15_Witness ==
    /\ Len(calls) = 1 /\ IsPlateValidate(Last)
    /\ meta.plate[1].rows = <<Index(<<"A">>), Index(<<"B">>)>>
    /\ meta.plate[1].columns = <<Index(<<"1">>), Index(<<"2">>), Index(<<"3">>)>>
    /\ meta.plate[1].wells = <<PlateWell(<<"A", "/", "3">>, 0, 0)>>
    /\ Last.res = Err(InconsistentWells)

\* two rows and one column: the column index 1 of the second well was
\* reported as nonexistent
C15_NonexistentReached ==
    /\ Len(calls) = 1 /\ IsPlateValidate(Last)
    /\ meta.plate[1].rows = <<Index(<<"A">>), Index(<<"B">>)>>
    /\ meta.plate[1].columns = <<Index(<<"1">>)>>
    /\ meta.plate[1].wells = <<PlateWell(<<"B", "/", "1">>, 1, 0),
                               PlateWell(<<"A", "/", "2">>, 0, 1)>>
    /\ Last.res = Err(NonexistentWell(1))

-----------------------------------------------------------------------------
(* Claims on Well::validate (SpecWell) *)

IsWellValidate(c) == c.op = "Well::validate"

\* the paths are pairwise distinct and made of alphanumeric chars
PathsAccepted(images) ==
    /\ \A i, j \in 1..Len(images) : i # j => images[i].path # images[j].path
    /\ \A i \in 1..Len(images) :
         \A m \in 1..Len(images[i].path) : images[i].path[m] \in AlphanumericChars

\* the field of view carries an id of the set S
CarriesIdOf(im, S) == im.acquisition # None /\ im.acquisition[1] \in S

\* C16: with the paths alphanumeric and pairwise distinct, Well::validate
\* succeeds when no id set is supplied, whatever the ids; when a set S is
\* supplied it succeeds exactly when every field of view carries an id of S,
\* and the first field of view that does not decides the error:
\* NoAcquisition when it has no id, UnknownAcquisition(k) when its id k is
\* not in S. The images (0, id 1), (1, id 3) against {1, 2} give
\* UnknownAcquisition(3).
C16_WellAcquisitions ==
    \A k \in 1..Len(calls) :
        LET c == calls[k]
            images == meta.well[1].images
        IN  (IsWellValidate(c) /\ PathsAccepted(images)) =>
              /\ c.acquisitions = None => IsOk(c.res)
              /\ c.acquisitions # None =>
                   /\ IsOk(c.res) <=>
                        \A i \in 1..Len(images) : CarriesIdOf(images[i], c.acquisitions[1])
                   /\ \A i \in 1..Len(images) :
                        (/\ \A j \in 1..(i - 1) : CarriesIdOf(images[j], c.acquisitions[1])
                         /\ ~CarriesIdOf(images[i], c.acquisitions[1]))
                          => c.res = Err(IF images[i].acquisition = None
                                            THEN NoAcquisition
                                            ELSE UnknownAcquisition(images[i].acquisition[1]))
              /\ (/\ images = <<FieldOfView(<<"0">>, Some(1)), FieldOfView(<<"1">>, Some(3))>>
                  /\ c.acquisitions = Some({1, 2}))
                   => c.res = Err(UnknownAcquisition(3))

\* the images (0, id 1), (1, id 3) were accepted without an id set and
\* rejected with UnknownAcquisition(3) against {1, 2}
C16_Witness ==
    /\ Len(calls) = 2
    /\ meta.well[1].images =
         <<FieldOfView(<<"0">>, Some(1)), FieldOfView(<<"1">>, Some(3))>>
    /\ IsWellValidate(calls[1]) /\ calls[1].acquisitions = None /\ IsOk(calls[1].res)
    /\ IsWellValidate(calls[2]) /\ calls[2].acquisitions = Some({1, 2})
    /\ calls[2].res = Err(UnknownAcquisition(3))

\* a field of view without an id was rejected with NoAcquisition
C16_NoAcquisitionReached ==
    /\ Len(calls) = 1 /\ IsWellValidate(Last) /\ Last.acquisitions = Some({1})
    /\ meta.well[1].images = <<FieldOfView(<<"0">>, Some(1)), FieldOfView(<<"1">>, None)>>
    /\ Last.res = Err(NoAcquisition)

-----------------------------------------------------------------------------
(* Claims on ImageLabel::validate (SpecLabel) *)

IsLabelValidate(c) == c.op = "ImageLabel::validate"

\* two entries of the optional list share a label value
SharedLabel(opt) ==
    /\ opt # None
    /\ \E i, j \in 1..Len(opt[1]) : i # j /\ opt[1][i].label_value = opt[1][j].label_value

\* C20: ImageLabel::validate returns NonUniqueLabels exactly when two
\* entries of colors share a label value or two entries of properties share
\* a label value, and succeeds otherwise, whether or not a color entry
\* carries an rgba value.
C20_NonUniqueExactly ==
    \A k \in 1..Len(calls) :
        LET c == calls[k]
            im == meta.image_label[1]
        IN  IsLabelValidate(c) =>
              c.res = IF SharedLabel(im.colors) \/ SharedLabel(im.properties)
                          THEN Err(NonUniqueLabels)
                          ELSE Ok(Unit)

\* colors with the distinct labels 1 (with rgba) and 2 (without) were
\* rejected
C20_DistinctRejected ==
    /\ Len(calls) = 1 /\ IsLabelValidate(Last)
    /\ meta.image_label[1].colors =
         Some(<<Color(1, Some(<<255, 0, 0, 255>>)), Color(2, None)>>)
    /\ meta.image_label[1].properties = None
    /\ Last.res = Err(NonUniqueLabels)

\* two colors of label 1 without rgba were accepted
C20_SharedAccepted ==
    /\ Len(calls) = 1 /\ IsLabelValidate(Last)
    /\ meta.image_label[1].colors = Some(<<Color(1, None), Color(1, None)>>)
    /\ meta.image_label[1].properties = None
    /\ Last.res = Ok(Unit)

-----------------------------------------------------------------------------
(* Claims on applying a validated Multiscale (SpecApplied) *)

IsLevelCall(c) == c.op \in {"transform", "rev_transform"} /\ OnLevel(c)

AllInline(list) == \A i \in 1..Len(list) : IsInline(list[i])

AllInlineMultiscale(m) ==
    /\ \A i \in 1..Len(m.datasets) : AllInline(m.datasets[i].coordinate_transformations)
    /\ AllInline(GroupList(m))

\* call k comes after a Multiscale::validate that succeeded
AfterValidated(k) ==
    \E j \in 1..(k - 1) : IsMultiscaleValidate(calls[j]) /\ IsOk(calls[j].res)

\* C19: once Multiscale::validate has succeeded on a Multiscale whose
\* transforms are all inline, (m, level).transform and
\* (m, level).rev_transform on a buffer as long as the axes return success
\* for every level below the number of datasets, and do not return at all
\* for a level at or beyond it.
C19_ValidatedLevelsApply ==
    \A k \in 1..Len(calls) :
        LET c == calls[k] IN
        (/\ IsLevelCall(c) /\ AfterValidated(k)
         /\ AllInlineMultiscale(ms) /\ Len(c.pre) = Len(ms.axes))
            => IF c.recv[2] < Len(ms.datasets) THEN IsOk(c.res) ELSE IsPanic(c.res)

\* validate succeeded on a Multiscale with a group-wide Scale, and
\* rev_transform on level 0 then returned success
C19_Witness ==
    /\ Len(calls) = 2
    /\ IsMultiscaleValidate(calls[1]) /\ IsOk(calls[1].res)
    /\ AllInlineMultiscale(ms) /\ ms.coordinate_transformations # None
    /\ Len(GroupList(ms)) = 1
    /\ IsLevelCall(calls[2]) /\ calls[2].op = "rev_transform"
    /\ calls[2].recv[2] = 0 /\ Len(calls[2].pre) = Len(ms.axes)
    /\ IsOk(calls[2].res)

\* validate succeeded, and transform on the level after the last one did
\* not return
C19_PanicReached ==
    /\ Len(calls) = 2
    /\ IsMultiscaleValidate(calls[1]) /\ IsOk(calls[1].res)
    /\ AllInlineMultiscale(ms)
    /\ IsLevelCall(calls[2]) /\ calls[2].op = "transform"
    /\ calls[2].recv[2] = Len(ms.datasets) /\ Len(calls[2].pre) = Len(ms.axes)
    /\ IsPanic(calls[2].res)

-----------------------------------------------------------------------------
(* Claims on all validators (Spec) *)

\* the errors of the rules that axis i breaks, given the axes before it
AxisErrorsAt(list, i) ==
    LET before == SubSeq(list, 1, i - 1) IN
    (IF \E j \in 1..(i - 1) : list[j].name = list[i].name
        THEN {NonUniqueName} ELSE {})
    \cup (IF list[i].type = "space" /\ CountOf(before, {"space"}) >= 3
        THEN {NSpace} ELSE {})
    \cup (IF \/ list[i].type = "time"
                /\ CountOf(before, {"space", "channel", "custom"}) > 0
             \/ IsOther(list[i]) /\ CountOf(before, {"space"}) > 0
        THEN {InvalidAxes_Order} ELSE {})
    \cup (IF list[i].type = "time" /\ CountOf(before, {"time"}) > 0
        THEN {NTime} ELSE {})
    \cup (IF IsOther(list[i]) /\ CountOf(before, {"channel", "custom"}) > 0
        THEN {NOther} ELSE {})

\* InvalidAxes::validate: the length first, then the lowest-indexed axis
\* that breaks a rule
C17_AxesOrder ==
    \A k \in 1..Len(calls) :
        LET c == calls[k] IN
        IsAxesValidate(c) =>
          /\ Broken("Count", ms.axes) => c.res = Err(InvalidAxes_Count(Len(ms.axes)))
          /\ ~Broken("Count", ms.axes) =>
               \A i \in 1..Len(ms.axes) :
                 (/\ AxisErrorsAt(ms.axes, i) # {}
                  /\ \A j \in 1..(i - 1) : AxisErrorsAt(ms.axes, j) = {})
                   => (IsErr(c.res) /\ c.res.err \in AxisErrorsAt(ms.axes, i))

\* Multiscale::validate: the axes, then the datasets in list order, then
\* the group-wide list
C17_MultiscaleOrder ==
    \A k \in 1..Len(calls) :
        LET c == calls[k]
            n == Len(ms.axes)
        IN  IsMultiscaleValidate(c) =>
              /\ ~AxesAccepted(ms) =>
                   c.res = Err(InvalidMultiscale_Axes(InvalidAxes_validate(ms.axes).err))
              /\ AxesAccepted(ms) =>
                   \A i \in 1..Len(ms.datasets) :
                     (/\ \A j \in 1..(i - 1) : DatasetAccepted(ms, j)
                      /\ ~DatasetAccepted(ms, i))
                       => c.res = Err(InvalidMultiscale_Transforms(
                                    MultiscaleDataset_validate(ms.datasets[i], Some(n)).err))
              /\ (/\ AxesAccepted(ms)
                  /\ \A i \in 1..Len(ms.datasets) : DatasetAccepted(ms, i)
                  /\ ~GroupAccepted(ms))
                   => c.res = Err(InvalidMultiscale_Transforms(
                                InvalidCoordinateTransforms_validate(
                                    GroupList(ms), FALSE, Some(n)).err))

\* index entry i repeats an earlier name or has a malformed one
IndexBrokenAt(idxs, i) ==
    \/ \E j \in 1..(i - 1) : idxs[j].name = idxs[i].name
    \/ \E m \in 1..Len(idxs[i].name) : idxs[i].name[m] \notin AlphanumericChars

\* the error of the lowest-indexed broken entry of a rejected index list
FirstIndexError(idxs) ==
    LET i == CHOOSE x \in 1..Len(idxs) :
                 /\ IndexBrokenAt(idxs, x)
                 /\ \A j \in 1..(x - 1) : ~IndexBrokenAt(idxs, j)
    IN  IF \E j \in 1..(i - 1) : idxs[j].name = idxs[i].name
            THEN NonUniqueIndex ELSE InvalidIndex

AcquisitionBrokenAt(acqs, i) ==
    \/ \E j \in 1..(i - 1) : acqs[j].id = acqs[i].id
    \/ EndsBeforeStart(acqs[i])

\* the error of the lowest-indexed broken acquisition of a rejected list
FirstAcquisitionError(acqs) ==
    LET i == CHOOSE x \in 1..Len(acqs) :
                 /\ AcquisitionBrokenAt(acqs, x)
                 /\ \A j \in 1..(x - 1) : ~AcquisitionBrokenAt(acqs, j)
    IN  IF \E j \in 1..(i - 1) : acqs[j].id = acqs[i].id
            THEN NonUniqueAcquisitionId ELSE AcquisitionTime

\* Plate::validate: the rows, then the columns, then the acquisitions in
\* list order, then the wells in list order
C17_PlateOrder ==
    \A k \in 1..Len(calls) :
        LET c == calls[k]
            p == meta.plate[1]
        IN  IsPlateValidate(c) =>
              /\ ~IndexAccepted(p.rows) => c.res = Err(FirstIndexError(p.rows))
              /\ (IndexAccepted(p.rows) /\ ~IndexAccepted(p.columns))
                   => c.res = Err(FirstIndexError(p.columns))
              /\ (/\ IndexAccepted(p.rows) /\ IndexAccepted(p.columns)
                  /\ ~AcquisitionsAccepted(p))
                   => c.res = Err(FirstAcquisitionError(p.acquisitions[1]))
              /\ (/\ IndexAccepted(p.rows) /\ IndexAccepted(p.columns)
                  /\ AcquisitionsAccepted(p))
                   => \A i \in 1..Len(p.wells) :
                        (/\ \A j \in 1..(i - 1) : WellAccepted(p, p.wells[j])
                         /\ ~WellAccepted(p, p.wells[i]))
                          => c.res = Err(WellError(p, p.wells[i]))

\* the errors of the rules that field of view i breaks, given the fields
\* of view before it and the supplied id set
ImageErrorsAt(images, i, acquisitions) ==
    (IF \E m \in 1..Len(images[i].path) : images[i].path[m] \notin AlphanumericChars
        THEN {InvalidPath} ELSE {})
    \cup (IF \E j \in 1..(i - 1) : images[j].path = images[i].path
        THEN {NonUniquePaths} ELSE {})
    \cup (IF acquisitions # None /\ images[i].acquisition = None
        THEN {NoAcquisition} ELSE {})
    \cup (IF /\ acquisitions # None /\ images[i].acquisition # None
             /\ images[i].acquisition[1] \notin acquisitions[1]
        THEN {UnknownAcquisition(images[i].acquisition[1])} ELSE {})

\* Well::validate: the lowest-indexed field of view that breaks a rule
C17_WellOrder ==
    \A k \in 1..Len(calls) :
        LET c == calls[k]
            images == meta.well[1].images
        IN  IsWellValidate(c) =>
              \A i \in 1..Len(images) :
                (/\ ImageErrorsAt(images, i, c.acquisitions) # {}
                 /\ \A j \in 1..(i - 1) : ImageErrorsAt(images, j, c.acquisitions) = {})
                  => (IsErr(c.res) /\ c.res.err \in ImageErrorsAt(images, i, c.acquisitions))

\* C17: every validator returns the error of the first check that fails in
\* its scan order and never that of a later violation. Multiscale: axes,
\* datasets in list order, group-wide list. Plate: rows, columns,
\* acquisitions in list order, wells in list order. Well and axes: the
\* lowest-indexed element that breaks a rule (for axes after the length
\* check), also when a later element breaks a different rule.
C17_FirstViolation ==
    C17_AxesOrder /\ C17_MultiscaleOrder /\ C17_PlateOrder /\ C17_WellOrder

\* a Well whose first field of view has a malformed path and whose second
\* lacks an id was rejected with InvalidPath
C17_Witness ==
    /\ Len(calls) = 1 /\ IsWellValidate(Last) /\ Last.acquisitions = Some({1})
    /\ meta.well[1].images = <<FieldOfView(<<"-">>, Some(1)), FieldOfView(<<"0">>, None)>>
    /\ Last.res = Err(InvalidPath)

\* a Plate with a repeated row name and a malformed column name was
\* rejected with NonUniqueIndex
C17_PlateReached ==
    /\ Len(calls) = 1 /\ IsPlateValidate(Last)
    /\ ~IndexAccepted(meta.plate[1].rows) /\ ~IndexAccepted(meta.plate[1].columns)
    /\ FirstIndexError(meta.plate[1].columns) = InvalidIndex
    /\ Last.res = Err(NonUniqueIndex)

\* a Multiscale with rejected axes and a rejected dataset was rejected with
\* the error of the axes
C17_MultiscaleReached ==
    /\ Len(calls) = 1 /\ IsMultiscaleValidate(Last)
    /\ ~AxesAccepted(ms) /\ Len(ms.datasets) >= 1 /\ ~DatasetAccepted(ms, 1)
    /\ IsErr(Last.res) /\ Last.res.err.kind = "Axes"

\* an axes list whose second axis repeats a name and whose third axis is
\* out of order was rejected with NonUniqueName
C17_AxesReached ==
    /\ Len(calls) = 1 /\ IsAxesValidate(Last) /\ Len(ms.axes) >= 3
    /\ AxisErrorsAt(ms.axes, 1) = {}
    /\ AxisErrorsAt(ms.axes, 2) = {NonUniqueName}
    /\ InvalidAxes_Order \in AxisErrorsAt(ms.axes, 3)
    /\ Last.res = Err(NonUniqueName)

\* the documents: the transform list, the Multiscale, the Plate and the Well
documents == <<cs, ms, meta>>

\* two calls of the same validator with the same arguments gave the same
\* result
SameResultAgain ==
    \A j, k \in 1..Len(calls) :
        [calls[j] EXCEPT !.res = Unit] = [calls[k] EXCEPT !.res = Unit]
            => calls[j].res = calls[k].res

C18_MultiscaleReached ==
    /\ Len(calls) = 2
    /\ IsMultiscaleValidate(calls[1]) /\ IsErr(calls[1].res)
    /\ IsMultiscaleValidate(calls[2]) /\ calls[2].res = calls[1].res
    /\ Len(ms.datasets) = 2

====
